---- MODULE Spec2Model ----
(***************************************************************************)
(* Container lifecycle orchestration of uniweb: the start / stop / remove  *)
(* / status handlers of blueprints/project.py, the background thread       *)
(* _build_and_start, the docker wrapper of utils/docker_client.py and the  *)
(* shared status map DOCKER_STATUS.                                        *)
(*                                                                         *)
(* Every access to the status map and every call into the docker wrapper   *)
(* is one atomic step; request handlers and background threads interleave  *)
(* freely between those steps.                                             *)
(***************************************************************************)
EXTENDS Integers, Sequences, FiniteSets, TLC

(***************************************************************************)
(* Bounds                                                                  *)
(***************************************************************************)
\* number of request handlers that can be in progress at the same time
MaxRequests == 1
\* number of background threads started in one behaviour
MaxTasks == 2
\* number of requests received in one behaviour
MaxIssued == 2

Pids == {"P", "Q"}
ReqIds == 1..MaxRequests
TaskIds == 1..MaxTasks

None == "None"
Statuses == {"stopped", "starting", "running"}
\* "paused" stands for the raw states other than running and exited
\* (paused, restarting, dead): the code compares a raw state with "running"
\* only
RawStates == {"absent", "exited", "paused", "running"}

(***************************************************************************)
(* Project records (database/models.py).  A port column holds NULL, an     *)
(* integer, or (on a dynamically typed backend) a string of characters.    *)
(* The port columns belong to the project forms and can hold any of these  *)
(* values when a handler reads the record, so they are inputs of the       *)
(* handler; the identifying columns are state.                             *)
(***************************************************************************)
NoProject == [missing |-> TRUE]
PortValues ==
    { [null |-> TRUE], [int |-> 0], [int |-> 8080],
      [str |-> <<"a">>], [str |-> <<"0", "0">>] }

Project(pid) ==
    [ docker_name  |-> "c_" \o pid,
      docker_image |-> "i_" \o pid ]

\* the record as get_project_by_pid returns it
ProjectRow(record, port, docker_port) ==
    [ docker_name  |-> record.docker_name,
      docker_image |-> record.docker_image,
      port         |-> port,
      docker_port  |-> docker_port ]

IsNull(v) == "null" \in DOMAIN v
IsInt(v) == "int" \in DOMAIN v
IsStr(v) == "str" \in DOMAIN v

\* Python truth value of a column value: None, 0 and "" are false
PyTruthy(v) ==
    IF IsNull(v) THEN FALSE
    ELSE IF IsInt(v) THEN v.int # 0
    ELSE v.str # <<>>

Digits == {"0", "8"}
DigitValue(c) == IF c = "8" THEN 8 ELSE 0

RECURSIVE ParseDigits(_)
ParseDigits(s) ==
    IF s = <<>> THEN 0
    ELSE 10 * ParseDigits(SubSeq(s, 1, Len(s) - 1)) + DigitValue(s[Len(s)])

\* int(v) raises for a string that is not a decimal literal
PyIntRaises(v) ==
    IsStr(v) /\ (v.str = <<>> \/ \E i \in 1..Len(v.str) : v.str[i] \notin Digits)
PyInt(v) == IF IsInt(v) THEN v.int ELSE ParseDigits(v.str)

\* "int(x) if x else None"; an optional integer is <<>> (None) or <<n>>
PortExprRaises(v) == PyTruthy(v) /\ PyIntRaises(v)
PortExpr(v) == IF PyTruthy(v) THEN <<PyInt(v)>> ELSE <<>>

\* the try/except around both conversions: one failure resets both to None
ParsePortsRaises(project) ==
    PortExprRaises(project.port) \/ PortExprRaises(project.docker_port)
host_port_of(project) ==
    IF ParsePortsRaises(project) THEN <<>> ELSE PortExpr(project.port)
container_port_of(project) ==
    IF ParsePortsRaises(project) THEN <<>> ELSE PortExpr(project.docker_port)

\* "not x" for an optional integer
PyNot(opt) == opt = <<>> \/ opt[1] = 0

\* mutant: only the host port is checked
PortsMissing_hostonly(project) == PyNot(host_port_of(project))

PortsMissing(project) ==
    PyNot(host_port_of(project)) \/ PyNot(container_port_of(project))

(***************************************************************************)
(* State                                                                   *)
(***************************************************************************)
VARIABLES
    projects,       \* pid -> project record or NoProject
    docker_client,  \* FALSE when docker.from_env() failed at import
    images,         \* names of the images the engine holds
    containers,     \* container name -> raw state
    DOCKER_STATUS,  \* pid -> status or None (no entry)
    requests,       \* request slot -> handler activation
    tasks,          \* task slot -> background thread
    budget          \* number of requests still to be received

vars == <<projects, docker_client, images, containers, DOCKER_STATUS,
          requests, tasks, budget>>

ContainerNames == { "c_" \o p : p \in Pids }

(***************************************************************************)
(* Status map: atomic per-key get / set / pop                              *)
(***************************************************************************)
StoreGet(store, pid) == store[pid]
StoreSet(store, pid, value) == [store EXCEPT ![pid] = value]
StorePop(store, pid) == [store EXCEPT ![pid] = None]

(***************************************************************************)
(* Docker wrapper (utils/docker_client.py).  err is the outcome of the     *)
(* engine call: TRUE when it raised (engine unreachable, API error).       *)
(* Every wrapper returns its failure value when docker_client is unset.    *)
(***************************************************************************)
_docker_image_exists(image_name, err) ==
    docker_client /\ ~err /\ image_name \in images

_docker_container_exists(container_name, err) ==
    docker_client /\ ~err /\ containers[container_name] # "absent"

\* mutant: every existing container is reported as running
_docker_container_status_exists(container_name, err) ==
    IF docker_client /\ ~err /\ containers[container_name] # "absent"
    THEN "running" ELSE "stopped"

_docker_container_status(container_name, err) ==
    IF docker_client /\ ~err /\ containers[container_name] = "running"
    THEN "running" ELSE "stopped"

_docker_build_image(image_name, err) == docker_client /\ ~err
ImagesAfterBuild(image_name, err) ==
    IF _docker_build_image(image_name, err)
    THEN images \cup {image_name} ELSE images

\* the engine refuses a run whose name is taken or whose image is missing
RunSucceeds(image_name, container_name, err) ==
    docker_client /\ ~err /\ image_name \in images
        /\ containers[container_name] = "absent"
_docker_run_container(image_name, container_name, err) ==
    IF RunSucceeds(image_name, container_name, err)
    THEN "id_" \o container_name ELSE ""
ContainersAfterRun(image_name, container_name, err) ==
    IF RunSucceeds(image_name, container_name, err)
    THEN [containers EXCEPT ![container_name] = "running"] ELSE containers

_docker_start_container(container_name, err) ==
    docker_client /\ ~err /\ containers[container_name] # "absent"
ContainersAfterStart(container_name, err) ==
    IF _docker_start_container(container_name, err)
    THEN [containers EXCEPT ![container_name] = "running"] ELSE containers

_docker_stop_container(container_name, err) ==
    docker_client /\ ~err /\ containers[container_name] # "absent"
ContainersAfterStop(container_name, err) ==
    IF _docker_stop_container(container_name, err)
    THEN [containers EXCEPT ![container_name] = "exited"] ELSE containers

_docker_remove_container(container_name, err) ==
    docker_client /\ ~err /\ containers[container_name] # "absent"
ContainersAfterRemove(container_name, err) ==
    IF _docker_remove_container(container_name, err)
    THEN [containers EXCEPT ![container_name] = "absent"] ELSE containers

(***************************************************************************)
(* Request slots and task slots                                            *)
(***************************************************************************)
NoResponse == [code |-> 0, status |-> None]
Response(code, status) == [code |-> code, status |-> status]

IdleRequest ==
    [ kind |-> "idle", pid |-> "P", pc |-> "idle",
      image_name |-> "", container_name |-> "",
      port |-> [null |-> TRUE], docker_port |-> [null |-> TRUE],
      host_port |-> <<>>, container_port |-> <<>>,
      status |-> None, image_exists |-> FALSE, container_exists |-> FALSE,
      response |-> NoResponse,
      calls |-> <<>>,     \* history: wrapper calls made by this activation
      writes |-> 0,       \* history: status map writes made by it
      thread |-> 0 ]      \* history: task slot of the thread it started

IdleTask ==
    [ pid |-> "P", pc |-> "idle",
      image_name |-> "", container_name |-> "",
      host_port |-> <<>>, container_port |-> <<>>,
      image_exists |-> FALSE, container_exists |-> FALSE,
      result |-> FALSE,   \* container_id / started
      calls |-> <<>>,     \* history: <<operation, success>> per wrapper call
      faulted |-> FALSE ] \* history: an exception left the try body

TaskActive(t) == tasks[t].pc \notin {"idle", "done", "killed"}
ActiveTasks(pid) == { t \in TaskIds : TaskActive(t) /\ tasks[t].pid = pid }
InFlight(r) == requests[r].pc \notin {"idle", "done"}

InitWith(n) ==
    /\ projects = [p \in Pids |-> IF p = "P" THEN Project(p) ELSE NoProject]
    /\ docker_client \in BOOLEAN
    /\ images \in SUBSET {"i_P"}
    /\ \E raw \in RawStates :
          containers = [c \in ContainerNames |->
                          IF c = "c_P" THEN raw ELSE "absent"]
    /\ DOCKER_STATUS = [p \in Pids |-> None]
    /\ requests = [r \in ReqIds |-> IdleRequest]
    /\ tasks = [t \in TaskIds |-> IdleTask]
    /\ budget = n

Init == InitWith(MaxIssued)

FreeRequest(r) ==
    /\ budget > 0
    /\ requests[r].pc = "idle"
    /\ \A q \in ReqIds : q < r => requests[q].pc # "idle"
FreeTask(t) ==
    /\ tasks[t].pc = "idle"
    /\ \A u \in TaskIds : u < t => tasks[u].pc # "idle"

\* the activation ends: its locals are gone, the response stays visible
Respond(r, code, status) ==
    [IdleRequest EXCEPT !.kind = requests[r].kind, !.pid = requests[r].pid,
                        !.port = requests[r].port,
                        !.docker_port = requests[r].docker_port,
                        !.pc = "done", !.response = Response(code, status),
                        !.calls = requests[r].calls,
                        !.writes = requests[r].writes]

\* get_project_by_pid and the fields every handler copies from the record
Enter(r, kind, pid, pc) ==
    IF projects[pid] = NoProject
    THEN [IdleRequest EXCEPT !.kind = kind, !.pid = pid, !.pc = "done",
                             !.response = Response(404, None)]
    ELSE [IdleRequest EXCEPT !.kind = kind, !.pid = pid, !.pc = pc,
                             !.container_name = projects[pid].docker_name]

(***************************************************************************)
(* start_docker                                                            *)
(***************************************************************************)
\* lines 409-440: read the project, convert the ports, reject missing ports
start_docker_enter(r, pid, port, docker_port) ==
    /\ FreeRequest(r)
    /\ budget' = budget - 1
    /\ LET entered == Enter(r, "start", pid, "dedup")
           project == ProjectRow(projects[pid], port, docker_port)
       IN  requests' = [requests EXCEPT ![r] =
             IF entered.pc = "done" THEN entered
             ELSE IF PortsMissing(project)
             THEN [entered EXCEPT !.pc = "done",
                                  !.port = project.port,
                                  !.docker_port = project.docker_port,
                                  !.response = Response(400, None)]
             ELSE [entered EXCEPT
                     !.image_name = project.docker_image,
                     !.port = project.port,
                     !.docker_port = project.docker_port,
                     !.host_port = host_port_of(project),
                     !.container_port = container_port_of(project)]]
    /\ UNCHANGED <<projects, docker_client, images, containers,
                   DOCKER_STATUS, tasks>>

\* mutants: the check compares with the wrong status; the check turns
\* away every project that has an entry
AlreadyStarting_running(status) == status = "running"
AlreadyStarting_any(status) == status # None

AlreadyStarting(status) == status = "starting"

\* lines 443-447: a start that reads "starting" returns at once
start_docker_dedup(r) ==
    /\ requests[r].kind = "start" /\ requests[r].pc = "dedup"
    /\ LET status == StoreGet(DOCKER_STATUS, requests[r].pid)
       IN  requests' = [requests EXCEPT ![r] =
             IF AlreadyStarting(status)
             THEN Respond(r, 202, "starting")
             ELSE [@ EXCEPT !.pc = "image_exists"]]
    /\ UNCHANGED <<projects, docker_client, images, containers,
                   DOCKER_STATUS, tasks, budget>>

\* line 450
start_docker_image_exists(r) ==
    /\ requests[r].kind = "start" /\ requests[r].pc = "image_exists"
    /\ \E err \in BOOLEAN :
          requests' = [requests EXCEPT ![r] =
             [@ EXCEPT !.image_exists =
                           _docker_image_exists(requests[r].image_name, err),
                       !.calls = Append(@, "image_exists"),
                       !.pc = "container_exists"]]
    /\ UNCHANGED <<projects, docker_client, images, containers,
                   DOCKER_STATUS, tasks, budget>>

\* line 453
start_docker_container_exists(r) ==
    /\ requests[r].kind = "start" /\ requests[r].pc = "container_exists"
    /\ \E err \in BOOLEAN :
          requests' = [requests EXCEPT ![r] =
             [@ EXCEPT !.container_exists =
                           _docker_container_exists(
                              requests[r].container_name, err),
                       !.calls = Append(@, "container_exists"),
                       !.pc = "thread_start"]]
    /\ UNCHANGED <<projects, docker_client, images, containers,
                   DOCKER_STATUS, tasks, budget>>

\* the closure the thread runs: the handler's locals at t.start()
Closure(req) ==
    [IdleTask EXCEPT !.pid = req.pid, !.pc = "set_starting",
                     !.image_name = req.image_name,
                     !.container_name = req.container_name,
                     !.host_port = req.host_port,
                     !.container_port = req.container_port,
                     !.image_exists = req.image_exists,
                     !.container_exists = req.container_exists]

\* lines 529-535: start the thread, answer "starting"
start_docker_thread_start(r, t) ==
    /\ requests[r].kind = "start" /\ requests[r].pc = "thread_start"
    /\ FreeTask(t)
    /\ tasks' = [tasks EXCEPT ![t] = Closure(requests[r])]
    /\ requests' = [requests EXCEPT ![r] =
                      [Respond(r, 202, "starting") EXCEPT !.thread = t]]
    /\ UNCHANGED <<projects, docker_client, images, containers,
                   DOCKER_STATUS, budget>>

(***************************************************************************)
(* _build_and_start, the body of the background thread                     *)
(***************************************************************************)
\* the thread has ended and its frame is gone
Terminated(t) ==
    [IdleTask EXCEPT !.pid = tasks[t].pid, !.pc = "done",
                     !.faulted = tasks[t].faulted]

\* mutant: every thread writes the same key
TaskWrite_shared(t, value) ==
    DOCKER_STATUS' = StoreSet(DOCKER_STATUS, "P", value)

TaskWrite(t, value) ==
    DOCKER_STATUS' = StoreSet(DOCKER_STATUS, tasks[t].pid, value)

\* line 458
build_and_start_set_starting(t) ==
    /\ tasks[t].pc = "set_starting"
    /\ TaskWrite(t, "starting")
    /\ tasks' = [tasks EXCEPT ![t] =
                   [@ EXCEPT !.pc = IF tasks[t].image_exists
                                    THEN "container_step" ELSE "build"]]
    /\ UNCHANGED <<projects, docker_client, images, containers, requests,
                   budget>>

\* mutant: the result of the build is ignored
AfterBuild_ignored(success) == "container_step"

AfterBuild(success) == IF success THEN "container_step" ELSE "build_failed"

\* mutant: the thread builds the image the record names at that moment
build_and_start_build_rereads(t) ==
    /\ tasks[t].pc = "build"
    /\ \E err \in BOOLEAN :
          LET image_name == projects[tasks[t].pid].docker_image
              success == _docker_build_image(image_name, err)
          IN  /\ images' = ImagesAfterBuild(image_name, err)
              /\ tasks' = [tasks EXCEPT ![t] =
                   [@ EXCEPT !.calls = Append(@, <<"build", success>>),
                             !.pc = AfterBuild(success)]]
    /\ UNCHANGED <<projects, docker_client, containers, DOCKER_STATUS,
                   requests, budget>>

\* lines 462-467: the image was not found, build it
build_and_start_build(t) ==
    /\ tasks[t].pc = "build"
    /\ \E err \in BOOLEAN :
          LET success == _docker_build_image(tasks[t].image_name, err)
          IN  /\ images' = ImagesAfterBuild(tasks[t].image_name, err)
              /\ tasks' = [tasks EXCEPT ![t] =
                   [@ EXCEPT !.calls = Append(@, <<"build", success>>),
                             !.pc = AfterBuild(success)]]
    /\ UNCHANGED <<projects, docker_client, containers, DOCKER_STATUS,
                   requests, budget>>

\* lines 468-472
build_and_start_build_failed(t) ==
    /\ tasks[t].pc = "build_failed"
    /\ TaskWrite(t, "stopped")
    /\ tasks' = [tasks EXCEPT ![t] =
                   [@ EXCEPT !.pc = "finally_get"]]
    /\ UNCHANGED <<projects, docker_client, images, containers, requests,
                   budget>>

UseRun(task) == ~task.container_exists

\* lines 475-488 and 507: run a new container or start the existing one
build_and_start_container_step(t) ==
    /\ tasks[t].pc = "container_step"
    /\ \E err \in BOOLEAN :
          LET task == tasks[t]
              container_id ==
                  _docker_run_container(task.image_name,
                                        task.container_name, err)
              started == _docker_start_container(task.container_name, err)
          IN  IF UseRun(task)
              THEN /\ containers' = ContainersAfterRun(
                          task.image_name, task.container_name, err)
                   /\ tasks' = [tasks EXCEPT ![t] =
                        [@ EXCEPT !.result = container_id # "",
                                  !.calls = Append(@, <<"run",
                                                        container_id # "">>),
                                  !.pc = "write_result"]]
              ELSE /\ containers' = ContainersAfterStart(
                          task.container_name, err)
                   /\ tasks' = [tasks EXCEPT ![t] =
                        [@ EXCEPT !.result = started,
                                  !.calls = Append(@, <<"start", started>>),
                                  !.pc = "write_result"]]
    /\ UNCHANGED <<projects, docker_client, images, DOCKER_STATUS,
                   requests, budget>>

\* mutants: the result of run / start is ignored; a failure is recorded
\* under a fourth name
ResultStatus_ignored(result) == "running"
ResultStatus_error(result) == IF result THEN "running" ELSE "error"

ResultStatus(result) == IF result THEN "running" ELSE "stopped"

\* mutant: after a failed call the thread tries the container step again
build_and_start_write_result_retries(t) ==
    /\ tasks[t].pc = "write_result"
    /\ TaskWrite(t, ResultStatus(tasks[t].result))
    /\ tasks' = [tasks EXCEPT ![t] =
                   [@ EXCEPT !.result = FALSE,
                             !.pc = IF tasks[t].result THEN "finally_get"
                                    ELSE "container_step"]]
    /\ UNCHANGED <<projects, docker_client, images, containers, requests,
                   budget>>

\* lines 489-501 and 508-519
build_and_start_write_result(t) ==
    /\ tasks[t].pc = "write_result"
    /\ TaskWrite(t, ResultStatus(tasks[t].result))
    /\ tasks' = [tasks EXCEPT ![t] =
                   [@ EXCEPT !.result = FALSE, !.pc = "finally_get"]]
    /\ UNCHANGED <<projects, docker_client, images, containers, requests,
                   budget>>

\* The wrappers catch every exception and the status map's set does not
\* fail, so an exception can only come from a statement between them; it
\* reaches the thread at one of the steps that follow the first write.
TryBody == {"build", "build_failed", "container_step", "write_result"}

\* mutant: the exception reaches the request that started the thread
build_and_start_fault_propagates(t) ==
    /\ tasks[t].pc \in TryBody
    /\ tasks' = [tasks EXCEPT ![t] =
                   [@ EXCEPT !.faulted = TRUE, !.result = FALSE,
                             !.pc = "finally_get"]]
    /\ requests' = [r \in ReqIds |->
                      IF requests[r].pc = "done" /\ requests[r].thread = t
                      THEN [requests[r] EXCEPT
                              !.response = Response(500, None)]
                      ELSE requests[r]]
    /\ UNCHANGED <<projects, docker_client, images, containers,
                   DOCKER_STATUS, budget>>

\* an exception raised inside the try block transfers control to finally
build_and_start_fault(t) ==
    /\ tasks[t].pc \in TryBody
    /\ tasks' = [tasks EXCEPT ![t] =
                   [@ EXCEPT !.faulted = TRUE, !.result = FALSE,
                             !.pc = "finally_get"]]
    /\ UNCHANGED <<projects, docker_client, images, containers,
                   DOCKER_STATUS, requests, budget>>

\* mutants: the cleanup tests the wrong status / never fires
NeedsCleanup_running(status) == status = "running"
NeedsCleanup_never(status) == FALSE

NeedsCleanup(status) == status = "starting"

\* line 522
build_and_start_finally_get(t) ==
    /\ tasks[t].pc = "finally_get"
    /\ tasks' = [tasks EXCEPT ![t] =
                   IF NeedsCleanup(StoreGet(DOCKER_STATUS, tasks[t].pid))
                   THEN [@ EXCEPT !.pc = "finally_set"]
                   ELSE Terminated(t)]
    /\ UNCHANGED <<projects, docker_client, images, containers,
                   DOCKER_STATUS, requests, budget>>

\* mutant: the thread ends without the cleanup write
build_and_start_finally_set_skipped(t) ==
    /\ tasks[t].pc = "finally_set"
    /\ tasks' = [tasks EXCEPT ![t] = Terminated(t)]
    /\ UNCHANGED <<projects, docker_client, images, containers,
                   DOCKER_STATUS, requests, budget>>

\* line 523
build_and_start_finally_set(t) ==
    /\ tasks[t].pc = "finally_set"
    /\ TaskWrite(t, "stopped")
    /\ tasks' = [tasks EXCEPT ![t] =
                   Terminated(t)]
    /\ UNCHANGED <<projects, docker_client, images, containers, requests,
                   budget>>

TaskStep(t) ==
    \/ build_and_start_set_starting(t)
    \/ build_and_start_build(t)
    \/ build_and_start_build_failed(t)
    \/ build_and_start_container_step(t)
    \/ build_and_start_write_result(t)
    \/ build_and_start_finally_get(t)
    \/ build_and_start_finally_set(t)

(***************************************************************************)
(* stop_docker                                                             *)
(***************************************************************************)
\* mutant: a stop is turned away while the project is starting
stop_docker_enter_guarded(r, pid) ==
    /\ FreeRequest(r)
    /\ budget' = budget - 1
    /\ requests' = [requests EXCEPT ![r] =
          IF StoreGet(DOCKER_STATUS, pid) = "starting"
          THEN [IdleRequest EXCEPT !.kind = "stop", !.pid = pid,
                                   !.pc = "done",
                                   !.response = Response(409, "starting")]
          ELSE Enter(r, "stop", pid, "container_exists")]
    /\ UNCHANGED <<projects, docker_client, images, containers,
                   DOCKER_STATUS, tasks>>

\* lines 543-548
stop_docker_enter(r, pid) ==
    /\ FreeRequest(r)
    /\ budget' = budget - 1
    /\ requests' = [requests EXCEPT ![r] =
                      Enter(r, "stop", pid, "container_exists")]
    /\ UNCHANGED <<projects, docker_client, images, containers,
                   DOCKER_STATUS, tasks>>

\* the existence guard shared by stop_docker (549-553) and
\* remove_docker (576-580)
\* mutant: the existence guard is missing
NotFound_never(exists) == FALSE

NotFound(exists) == ~exists

\* lines 549-553
stop_docker_container_exists(r) ==
    /\ requests[r].kind = "stop" /\ requests[r].pc = "container_exists"
    /\ \E err \in BOOLEAN :
          LET exists ==
                _docker_container_exists(requests[r].container_name, err)
          IN  requests' = [requests EXCEPT ![r] =
                [(IF NotFound(exists) THEN Respond(r, 404, None)
                  ELSE [@ EXCEPT !.pc = "stop_container"])
                 EXCEPT !.container_exists = exists,
                        !.calls = Append(@, "container_exists")]]
    /\ UNCHANGED <<projects, docker_client, images, containers,
                   DOCKER_STATUS, tasks, budget>>

\* mutant: a failed stop call resets the entry
stop_docker_stop_container_resets(r) ==
    /\ requests[r].kind = "stop" /\ requests[r].pc = "stop_container"
    /\ \E err \in BOOLEAN :
          LET stopped ==
                _docker_stop_container(requests[r].container_name, err)
          IN  /\ containers' =
                    ContainersAfterStop(requests[r].container_name, err)
              /\ DOCKER_STATUS' =
                    IF ~stopped
                    THEN StoreSet(DOCKER_STATUS, requests[r].pid, "stopped")
                    ELSE DOCKER_STATUS
              /\ requests' = [requests EXCEPT ![r] =
                   [(IF ~stopped THEN Respond(r, 500, None)
                     ELSE [@ EXCEPT !.pc = "set_stopped"])
                    EXCEPT !.calls = Append(@, "stop_container")]]
    /\ UNCHANGED <<projects, docker_client, images, tasks, budget>>

\* lines 554-559
stop_docker_stop_container(r) ==
    /\ requests[r].kind = "stop" /\ requests[r].pc = "stop_container"
    /\ \E err \in BOOLEAN :
          LET stopped ==
                _docker_stop_container(requests[r].container_name, err)
          IN  /\ containers' =
                    ContainersAfterStop(requests[r].container_name, err)
              /\ requests' = [requests EXCEPT ![r] =
                   [(IF ~stopped THEN Respond(r, 500, None)
                     ELSE [@ EXCEPT !.pc = "set_stopped"])
                    EXCEPT !.calls = Append(@, "stop_container")]]
    /\ UNCHANGED <<projects, docker_client, images, DOCKER_STATUS, tasks,
                   budget>>

\* mutant: the handler answers without writing the status map
stop_docker_set_stopped_nowrite(r) ==
    /\ requests[r].kind = "stop" /\ requests[r].pc = "set_stopped"
    /\ requests' = [requests EXCEPT ![r] = Respond(r, 200, "stopped")]
    /\ UNCHANGED <<projects, docker_client, images, containers,
                   DOCKER_STATUS, tasks, budget>>

\* lines 560-562
stop_docker_set_stopped(r) ==
    /\ requests[r].kind = "stop" /\ requests[r].pc = "set_stopped"
    /\ DOCKER_STATUS' = StoreSet(DOCKER_STATUS, requests[r].pid, "stopped")
    /\ requests' = [requests EXCEPT ![r] =
                      [Respond(r, 200, "stopped") EXCEPT !.writes = @ + 1]]
    /\ UNCHANGED <<projects, docker_client, images, containers, tasks,
                   budget>>

(***************************************************************************)
(* remove_docker                                                           *)
(***************************************************************************)
\* lines 570-575
remove_docker_enter(r, pid) ==
    /\ FreeRequest(r)
    /\ budget' = budget - 1
    /\ requests' = [requests EXCEPT ![r] =
                      Enter(r, "remove", pid, "container_exists")]
    /\ UNCHANGED <<projects, docker_client, images, containers,
                   DOCKER_STATUS, tasks>>

\* lines 576-580
remove_docker_container_exists(r) ==
    /\ requests[r].kind = "remove" /\ requests[r].pc = "container_exists"
    /\ \E err \in BOOLEAN :
          LET exists ==
                _docker_container_exists(requests[r].container_name, err)
          IN  requests' = [requests EXCEPT ![r] =
                [(IF NotFound(exists) THEN Respond(r, 404, None)
                  ELSE [@ EXCEPT !.pc = "remove_container"])
                 EXCEPT !.container_exists = exists,
                        !.calls = Append(@, "container_exists")]]
    /\ UNCHANGED <<projects, docker_client, images, containers,
                   DOCKER_STATUS, tasks, budget>>

\* lines 582-587
remove_docker_remove_container(r) ==
    /\ requests[r].kind = "remove" /\ requests[r].pc = "remove_container"
    /\ \E err \in BOOLEAN :
          LET removed ==
                _docker_remove_container(requests[r].container_name, err)
          IN  /\ containers' =
                    ContainersAfterRemove(requests[r].container_name, err)
              /\ requests' = [requests EXCEPT ![r] =
                   [(IF ~removed THEN Respond(r, 500, None)
                     ELSE [@ EXCEPT !.pc = "pop"])
                    EXCEPT !.calls = Append(@, "remove_container")]]
    /\ UNCHANGED <<projects, docker_client, images, DOCKER_STATUS, tasks,
                   budget>>

\* mutant: the handler writes "stopped" instead of deleting the entry
remove_docker_pop_stopped(r) ==
    /\ requests[r].kind = "remove" /\ requests[r].pc = "pop"
    /\ DOCKER_STATUS' = StoreSet(DOCKER_STATUS, requests[r].pid, "stopped")
    /\ requests' = [requests EXCEPT ![r] =
                      [Respond(r, 200, "stopped") EXCEPT !.writes = @ + 1]]
    /\ UNCHANGED <<projects, docker_client, images, containers, tasks,
                   budget>>

\* lines 590-594
remove_docker_pop(r) ==
    /\ requests[r].kind = "remove" /\ requests[r].pc = "pop"
    /\ DOCKER_STATUS' = StorePop(DOCKER_STATUS, requests[r].pid)
    /\ requests' = [requests EXCEPT ![r] =
                      [Respond(r, 200, "stopped") EXCEPT !.writes = @ + 1]]
    /\ UNCHANGED <<projects, docker_client, images, containers, tasks,
                   budget>>

(***************************************************************************)
(* project_docker_status                                                   *)
(***************************************************************************)
\* lines 600-603
project_docker_status_enter(r, pid) ==
    /\ FreeRequest(r)
    /\ budget' = budget - 1
    /\ requests' = [requests EXCEPT ![r] = Enter(r, "status", pid, "get")]
    /\ UNCHANGED <<projects, docker_client, images, containers,
                   DOCKER_STATUS, tasks>>

\* mutant: the entry is read but the engine is always asked
project_docker_status_get_reconcile(r) ==
    /\ requests[r].kind = "status" /\ requests[r].pc = "get"
    /\ LET status == StoreGet(DOCKER_STATUS, requests[r].pid)
       IN  requests' = [requests EXCEPT ![r] =
             [@ EXCEPT !.pc = "container_exists", !.status = status]]
    /\ UNCHANGED <<projects, docker_client, images, containers,
                   DOCKER_STATUS, tasks, budget>>

\* lines 606-608: "if status" is false for no entry
project_docker_status_get(r) ==
    /\ requests[r].kind = "status" /\ requests[r].pc = "get"
    /\ LET status == StoreGet(DOCKER_STATUS, requests[r].pid)
       IN  requests' = [requests EXCEPT ![r] =
             [(IF status # None THEN Respond(r, 200, status)
               ELSE [@ EXCEPT !.pc = "container_exists"])
              EXCEPT !.status = status]]
    /\ UNCHANGED <<projects, docker_client, images, containers,
                   DOCKER_STATUS, tasks, budget>>

\* lines 611-612 and 618
project_docker_status_container_exists(r) ==
    /\ requests[r].kind = "status" /\ requests[r].pc = "container_exists"
    /\ \E err \in BOOLEAN :
          LET exists ==
                _docker_container_exists(requests[r].container_name, err)
          IN  requests' = [requests EXCEPT ![r] =
                [(IF exists THEN [@ EXCEPT !.pc = "container_status"]
                  ELSE Respond(r, 200, "stopped"))
                 EXCEPT !.container_exists = exists,
                        !.calls = Append(@, "container_exists")]]
    /\ UNCHANGED <<projects, docker_client, images, containers,
                   DOCKER_STATUS, tasks, budget>>

\* mutant: the reconciled status is stored
project_docker_status_container_status_caches(r) ==
    /\ requests[r].kind = "status" /\ requests[r].pc = "container_status"
    /\ \E err \in BOOLEAN :
          LET st == _docker_container_status(requests[r].container_name, err)
              mapped == IF st = "running" THEN "running" ELSE "stopped"
          IN  /\ DOCKER_STATUS' =
                    StoreSet(DOCKER_STATUS, requests[r].pid, mapped)
              /\ requests' = [requests EXCEPT ![r] =
                    [Respond(r, 200, mapped)
                     EXCEPT !.calls = Append(@, "container_status")]]
    /\ UNCHANGED <<projects, docker_client, images, containers, tasks,
                   budget>>

\* lines 613-615
project_docker_status_container_status(r) ==
    /\ requests[r].kind = "status" /\ requests[r].pc = "container_status"
    /\ \E err \in BOOLEAN :
          LET st == _docker_container_status(requests[r].container_name, err)
              mapped == IF st = "running" THEN "running" ELSE "stopped"
          IN  requests' = [requests EXCEPT ![r] =
                [Respond(r, 200, mapped)
                 EXCEPT !.calls = Append(@, "container_status")]]
    /\ UNCHANGED <<projects, docker_client, images, containers,
                   DOCKER_STATUS, tasks, budget>>

\* the response has been sent; the slot serves the next request
Return(r) ==
    /\ requests[r].pc = "done"
    /\ requests' = [requests EXCEPT ![r] = IdleRequest]
    /\ UNCHANGED <<projects, docker_client, images, containers,
                   DOCKER_STATUS, tasks, budget>>

(***************************************************************************)
(* Specification                                                           *)
(***************************************************************************)
Next ==
    \/ \E r \in ReqIds, pid \in Pids, port, docker_port \in PortValues :
          start_docker_enter(r, pid, port, docker_port)
    \/ \E r \in ReqIds : start_docker_dedup(r)
    \/ \E r \in ReqIds : start_docker_image_exists(r)
    \/ \E r \in ReqIds : start_docker_container_exists(r)
    \/ \E r \in ReqIds, t \in TaskIds : start_docker_thread_start(r, t)
    \/ \E t \in TaskIds : build_and_start_set_starting(t)
    \/ \E t \in TaskIds : build_and_start_build(t)
    \/ \E t \in TaskIds : build_and_start_build_failed(t)
    \/ \E t \in TaskIds : build_and_start_container_step(t)
    \/ \E t \in TaskIds : build_and_start_write_result(t)
    \/ \E t \in TaskIds : build_and_start_fault(t)
    \/ \E t \in TaskIds : build_and_start_finally_get(t)
    \/ \E t \in TaskIds : build_and_start_finally_set(t)
    \/ \E r \in ReqIds, pid \in Pids : stop_docker_enter(r, pid)
    \/ \E r \in ReqIds : stop_docker_container_exists(r)
    \/ \E r \in ReqIds : stop_docker_stop_container(r)
    \/ \E r \in ReqIds : stop_docker_set_stopped(r)
    \/ \E r \in ReqIds, pid \in Pids : remove_docker_enter(r, pid)
    \/ \E r \in ReqIds : remove_docker_container_exists(r)
    \/ \E r \in ReqIds : remove_docker_remove_container(r)
    \/ \E r \in ReqIds : remove_docker_pop(r)
    \/ \E r \in ReqIds, pid \in Pids : project_docker_status_enter(r, pid)
    \/ \E r \in ReqIds : project_docker_status_get(r)
    \/ \E r \in ReqIds : project_docker_status_container_exists(r)
    \/ \E r \in ReqIds : project_docker_status_container_status(r)
    \/ \E r \in ReqIds : Return(r)

Spec == Init /\ [][Next]_vars

(***************************************************************************)
(* Fair scheduling: a thread that can take a step eventually takes it      *)
(* (every engine call returns, the scheduler does not starve a thread).    *)
(* The liveness check starts from an engine that does not hold the image,  *)
(* so that the first start has to build it.                                *)
(***************************************************************************)
FairInit == Init /\ images = {}
FairSpec ==
    FairInit /\ [][Next]_vars /\ \A t \in TaskIds : WF_vars(TaskStep(t))

(***************************************************************************)
(* Teardown of the worker process.  The threads are daemon threads (line   *)
(* 529): they end with the process, without running their finally block,   *)
(* and the handlers in progress end with it.  The status map lives outside *)
(* the process and keeps its entries; the restarted worker serves the next *)
(* requests.                                                               *)
(***************************************************************************)
Killed(t) == [IdleTask EXCEPT !.pid = tasks[t].pid, !.pc = "killed"]

Teardown ==
    /\ \E t \in TaskIds : TaskActive(t)
    /\ tasks' = [t \in TaskIds |->
                   IF TaskActive(t) THEN Killed(t) ELSE tasks[t]]
    /\ requests' = [r \in ReqIds |->
                      IF InFlight(r) THEN IdleRequest ELSE requests[r]]
    /\ UNCHANGED <<projects, docker_client, images, containers,
                   DOCKER_STATUS, budget>>

TeardownNext == Next \/ Teardown
TeardownSpec == Init /\ [][TeardownNext]_vars

(***************************************************************************)
(* Editing a project (project_edit, database/actions.py update_project).   *)
(* The form submits name, description, the two ports and the image chosen  *)
(* from the engine's image list; update_project sets every submitted field *)
(* the record has, except pid.  The record of the model holds the          *)
(* identifying columns; the port columns are inputs of the handlers that   *)
(* read them.                                                              *)
(***************************************************************************)
ImageChoices == {"i_P", "i_R"}
\* a port field that passes validation is a string of digits
FormPorts == { [str |-> <<"8", "0", "8", "0">>] }

update_project(project, kwargs) ==
    [key \in DOMAIN project |->
        IF key \in DOMAIN kwargs /\ key # "pid"
        THEN kwargs[key] ELSE project[key]]

\* mutant: the form also submits a container name
project_edit_renames(pid, port, docker_port, docker_image) ==
    /\ projects[pid] # NoProject
    /\ projects' = [projects EXCEPT ![pid] =
          update_project(@, [pname |-> "pname", pinfo |-> "pinfo",
                             port |-> port, docker_port |-> docker_port,
                             docker_image |-> docker_image,
                             docker_name |-> "c_Q"])]
    /\ projects' # projects
    /\ UNCHANGED <<docker_client, images, containers, DOCKER_STATUS,
                   requests, tasks, budget>>

\* lines 377-384
project_edit(pid, port, docker_port, docker_image) ==
    /\ projects[pid] # NoProject
    /\ projects' = [projects EXCEPT ![pid] =
          update_project(@, [pname |-> "pname", pinfo |-> "pinfo",
                             port |-> port, docker_port |-> docker_port,
                             docker_image |-> docker_image])]
    /\ projects' # projects
    /\ UNCHANGED <<docker_client, images, containers, DOCKER_STATUS,
                   requests, tasks, budget>>

EditNext ==
    \/ Next
    \/ \E pid \in Pids, port, docker_port \in FormPorts,
          docker_image \in ImageChoices :
          project_edit(pid, port, docker_port, docker_image)
EditSpec == Init /\ [][EditNext]_vars

(***************************************************************************)
(* Two projects: both P and Q have a record, so that requests and threads  *)
(* of different projects run side by side.                                 *)
(***************************************************************************)
TwoProjectInit ==
    /\ projects = [p \in Pids |-> Project(p)]
    /\ docker_client \in BOOLEAN
    /\ images = {}
    /\ containers \in [ContainerNames -> {"absent", "running"}]
    /\ DOCKER_STATUS = [p \in Pids |-> None]
    /\ requests = [r \in ReqIds |-> IdleRequest]
    /\ tasks = [t \in TaskIds |-> IdleTask]
    /\ budget = MaxIssued

TwoProjectSpec == TwoProjectInit /\ [][Next]_vars

(***************************************************************************)
(* Properties                                                              *)
(***************************************************************************)
LastCall(task) == task.calls[Len(task.calls)]
Stepped(r) == requests'[r] # requests[r]
Ended(t) == TaskActive(t) /\ tasks'[t].pc = "done"

\* C1: at most one background thread per project is active at any time
C1_SingleFlight ==
    \A p \in Pids : Cardinality(ActiveTasks(p)) <= 1

\* C2: a start request that reads "starting" answers 202 "starting" and
\* does nothing else: no thread, no wrapper call, no write to the status map
C2_StartDedup ==
    [][\A r \in ReqIds :
          ( /\ requests[r].kind = "start" /\ requests[r].pc = "dedup"
            /\ DOCKER_STATUS[requests[r].pid] = "starting"
            /\ Stepped(r) )
          => /\ requests'[r].pc = "done"
             /\ requests'[r].response = Response(202, "starting")
             /\ requests'[r].thread = 0
             /\ requests'[r].calls = <<>>
             /\ requests'[r].writes = 0
             /\ tasks' = tasks
             /\ DOCKER_STATUS' = DOCKER_STATUS
             /\ images' = images /\ containers' = containers]_vars

C2_Witness ==
    \E r \in ReqIds :
        /\ requests[r].kind = "start" /\ requests[r].pc = "done"
        /\ requests[r].response = Response(202, "starting")
        /\ requests[r].thread = 0
        /\ DOCKER_STATUS[requests[r].pid] = "starting"

\* the thread's start request is the only request received so far and no
\* other thread exists
Alone(t) ==
    /\ budget = MaxIssued - 1
    /\ \A u \in TaskIds \ {t} : tasks[u].pc = "idle"
Failed(task) ==
    \/ task.faulted
    \/ task.calls # <<>> /\ ~LastCall(task)[2]

C4_CleanupSurvivesTeardown ==
    \A p \in Pids :
        ( /\ \E t \in TaskIds : tasks[t].pc = "killed" /\ tasks[t].pid = p
          /\ ActiveTasks(p) = {} )
        => DOCKER_STATUS[p] # "starting"

\* C5: under fair scheduling a "starting" entry does not stay
C5_StartingLeadsToSettled ==
    \A p \in Pids :
        (DOCKER_STATUS[p] = "starting") ~> (DOCKER_STATUS[p] # "starting")

C5_Witness ==
    \E t \in TaskIds :
        /\ tasks[t].pc = "done" /\ tasks[t].faulted
        /\ DOCKER_STATUS[tasks[t].pid] \in {"running", "stopped"}

\* the column values that do not give a port: NULL, zero, a string that is
\* not an integer, a string that denotes zero
C6_Missing ==
    { [null |-> TRUE], [int |-> 0], [str |-> <<"a">>], [str |-> <<"0", "0">>] }

\* C6: a start request for a project whose host port or container port is
\* missing answers 400 and does nothing else
C6_ConfigurationError ==
    \A r \in ReqIds :
        ( /\ requests[r].kind = "start"
          /\ projects[requests[r].pid] # NoProject
          /\ (requests[r].port \in C6_Missing
                \/ requests[r].docker_port \in C6_Missing) )
        => /\ requests[r].pc = "done"
           /\ requests[r].response = Response(400, None)
           /\ requests[r].calls = <<>>
           /\ requests[r].writes = 0
           /\ requests[r].thread = 0

C6_Witness ==
    \E r \in ReqIds :
        /\ requests[r].kind = "start" /\ requests[r].pc = "done"
        /\ requests[r].response.code = 400
        /\ requests[r].port = [int |-> 8080]
        /\ requests[r].docker_port = [str |-> <<"a">>]

\* C7: once an accepted start request has returned, its thread has
\* written "starting"
C7_WriteBeforeLaunch ==
    \A r \in ReqIds :
        (requests[r].pc = "done" /\ requests[r].thread # 0)
        => tasks[requests[r].thread].pc # "set_starting"

\* C8: a thread that found no image calls build first; after a failed
\* build it makes no other wrapper call, and its next step writes "stopped"
\* and leaves the try block
C8_BuildFailureTerminal ==
    [][\A t \in TaskIds :
          /\ (TaskActive(t) /\ ~tasks[t].image_exists /\ tasks[t].calls # <<>>)
                => tasks[t].calls[1][1] = "build"
          /\ (tasks[t].calls # <<>> /\ tasks[t].calls[1] = <<"build", FALSE>>)
                => /\ Len(tasks[t].calls) = 1
                   /\ tasks[t].pc \in {"build_failed", "finally_get",
                                       "finally_set"}
                   /\ tasks'[t].pc \in {"build_failed", "finally_get",
                                        "finally_set", "done"}
                   /\ tasks'[t].calls \in {tasks[t].calls, <<>>}
          /\ ( /\ tasks[t].pc = "build_failed"
               /\ tasks'[t] # tasks[t] /\ ~tasks'[t].faulted )
                => /\ tasks'[t].pc = "finally_get"
                   /\ DOCKER_STATUS'[tasks[t].pid] = "stopped"
                   /\ images' = images /\ containers' = containers]_vars

C8_Witness ==
    \E t \in TaskIds :
        /\ tasks[t].pc = "finally_get" /\ ~tasks[t].faulted
        /\ tasks[t].calls = << <<"build", FALSE>> >>
        /\ DOCKER_STATUS[tasks[t].pid] = "stopped"

\* C9: past the image step the thread calls run when it found no
\* container and start-existing when it found one, and the value it then
\* writes is "running" exactly when that call succeeded
C9_ContainerStepOutcome ==
    [][\A t \in TaskIds :
          /\ tasks[t].pc = "write_result"
                => /\ LastCall(tasks[t])[1] =
                        (IF tasks[t].container_exists THEN "start" ELSE "run")
                   /\ LastCall(tasks[t])[2] = tasks[t].result
          /\ ( /\ tasks[t].pc = "write_result"
               /\ tasks'[t] # tasks[t] /\ ~tasks'[t].faulted )
                => /\ LastCall(tasks[t])[2]
                        => DOCKER_STATUS'[tasks[t].pid] = "running"
                   /\ ~LastCall(tasks[t])[2]
                        => DOCKER_STATUS'[tasks[t].pid] = "stopped"]_vars

C9_Witness ==
    \E t \in TaskIds :
        /\ tasks[t].pc = "finally_get" /\ ~tasks[t].faulted
        /\ tasks[t].calls # <<>>
        /\ LastCall(tasks[t]) = <<"start", FALSE>>
        /\ DOCKER_STATUS[tasks[t].pid] = "stopped"

\* C10: a stop or remove request for a project without a container answers
\* 404, calls neither stop nor remove and leaves the status map as it was
C10_StopRemoveRequireExistence ==
    [][\A r \in ReqIds :
          ( /\ requests[r].kind \in {"stop", "remove"}
            /\ requests[r].pc = "container_exists"
            /\ containers[requests[r].container_name] = "absent"
            /\ Stepped(r) )
          => /\ requests'[r].pc = "done"
             /\ requests'[r].response = Response(404, None)
             /\ requests'[r].calls = <<"container_exists">>
             /\ requests'[r].writes = 0
             /\ DOCKER_STATUS' = DOCKER_STATUS
             /\ containers' = containers]_vars

C10_Witness ==
    \E r \in ReqIds :
        /\ requests[r].kind = "remove" /\ requests[r].pc = "done"
        /\ projects[requests[r].pid] # NoProject
        /\ requests[r].response = Response(404, None)
        /\ containers[projects[requests[r].pid].docker_name] = "absent"
        /\ DOCKER_STATUS[requests[r].pid] = "stopped"

\* C11: a stop request whose container exists and whose stop call succeeded
\* writes "stopped" and answers 200 "stopped", whatever the entry held; the
\* stop call either succeeds and leads to that write or ends the request
C11_StopSuccess ==
    [][\A r \in ReqIds :
          /\ ( /\ requests[r].kind = "stop"
               /\ requests[r].pc = "stop_container" /\ Stepped(r) )
                => \/ /\ requests'[r].pc = "set_stopped"
                      /\ containers[requests[r].container_name] # "absent"
                      /\ containers'[requests[r].container_name] = "exited"
                   \/ /\ requests'[r].pc = "done"
                      /\ requests'[r].response.code = 500
          /\ ( /\ requests[r].kind = "stop"
               /\ requests[r].pc = "set_stopped" /\ Stepped(r) )
                => /\ requests[r].container_exists
                   /\ requests[r].calls =
                          <<"container_exists", "stop_container">>
                   /\ DOCKER_STATUS'[requests[r].pid] = "stopped"
                   /\ requests'[r].pc = "done"
                   /\ requests'[r].response = Response(200, "stopped")]_vars

\* the stop succeeded while the thread of the project was between its
\* write of "starting" and its build: the entry it replaced was "starting"
C11_Witness ==
    \E r \in ReqIds, t \in TaskIds :
        /\ requests[r].kind = "stop" /\ requests[r].pc = "done"
        /\ requests[r].response = Response(200, "stopped")
        /\ tasks[t].pid = requests[r].pid /\ tasks[t].pc = "build"
        /\ DOCKER_STATUS[requests[r].pid] = "stopped"

\* C12: a stop (remove) request whose container exists and whose stop
\* (remove) call fails answers 500, and that step changes neither the
\* status map nor the container
C12_FailureLeavesState ==
    [][\A r \in ReqIds :
          ( /\ \/ requests[r].kind = "stop"
                  /\ requests[r].pc = "stop_container"
               \/ requests[r].kind = "remove"
                  /\ requests[r].pc = "remove_container"
            /\ containers[requests[r].container_name] # "absent"
            /\ Stepped(r)
            /\ requests'[r].pc = "done" )
          => /\ requests'[r].response = Response(500, None)
             /\ requests'[r].writes = 0
             /\ DOCKER_STATUS' = DOCKER_STATUS
             /\ containers' = containers]_vars

\* a failed stop of an existing container left the entry at "running"
C12_Witness ==
    \E r \in ReqIds :
        /\ requests[r].kind = "stop" /\ requests[r].pc = "done"
        /\ requests[r].response = Response(500, None)
        /\ requests[r].calls = <<"container_exists", "stop_container">>
        /\ containers[projects[requests[r].pid].docker_name] = "running"
        /\ DOCKER_STATUS[requests[r].pid] = "running"

\* C13: a remove request whose container exists and whose remove call
\* succeeded deletes the entry of its project (no entry, not "stopped"),
\* whatever the entry held, and answers 200
C13_RemoveClearsEntry ==
    [][\A r \in ReqIds :
          /\ ( /\ requests[r].kind = "remove"
               /\ requests[r].pc = "remove_container" /\ Stepped(r) )
                => \/ /\ requests'[r].pc = "pop"
                      /\ containers[requests[r].container_name] # "absent"
                      /\ containers'[requests[r].container_name] = "absent"
                   \/ /\ requests'[r].pc = "done"
                      /\ requests'[r].response.code = 500
          /\ ( /\ requests[r].kind = "remove"
               /\ requests[r].pc = "pop" /\ Stepped(r) )
                => /\ requests[r].container_exists
                   /\ requests[r].calls =
                          <<"container_exists", "remove_container">>
                   /\ DOCKER_STATUS'[requests[r].pid] = None
                   /\ requests'[r].pc = "done"
                   /\ requests'[r].response.code = 200]_vars

\* the remove succeeded after the thread of the project had written
\* "starting": the entry it deleted was "starting"
C13_Witness ==
    \E r \in ReqIds, t \in TaskIds :
        /\ requests[r].kind = "remove" /\ requests[r].pc = "done"
        /\ requests[r].response.code = 200
        /\ tasks[t].pid = requests[r].pid /\ tasks[t].pc = "container_step"
        /\ DOCKER_STATUS[requests[r].pid] = None

\* C14: while a successful remove is the last request received, the
\* project has no entry, so that a status query finds none; this holds
\* also when a thread of the project was in flight at the remove
C14_RemoveThenStatus ==
    \A r \in ReqIds :
        ( /\ requests[r].kind = "remove" /\ requests[r].pc = "done"
          /\ requests[r].response.code = 200
          /\ \A q \in ReqIds \ {r} : requests[q].pc = "idle" )
        => DOCKER_STATUS[requests[r].pid] = None

\* C15: a status query that finds an entry answers 200 with exactly that
\* entry and calls no wrapper, whatever the state of the container is
C15_StatusVerbatim ==
    [][\A r \in ReqIds :
          ( /\ requests[r].kind = "status" /\ requests[r].pc = "get"
            /\ DOCKER_STATUS[requests[r].pid] # None
            /\ Stepped(r) )
          => /\ requests'[r].pc = "done"
             /\ requests'[r].response =
                    Response(200, DOCKER_STATUS[requests[r].pid])
             /\ requests'[r].calls = <<>>
             /\ DOCKER_STATUS' = DOCKER_STATUS
             /\ images' = images /\ containers' = containers]_vars

\* the query answered "stopped" from the entry while the container runs
C15_Witness ==
    \E r \in ReqIds :
        /\ requests[r].kind = "status" /\ requests[r].pc = "done"
        /\ requests[r].response = Response(200, "stopped")
        /\ requests[r].calls = <<>>
        /\ DOCKER_STATUS[requests[r].pid] = "stopped"
        /\ containers[projects[requests[r].pid].docker_name] = "running"

\* C16: a status query that finds no entry asks the engine: it answers
\* "stopped" for an absent container, "running" only for a container whose
\* raw state is running, "stopped" for every other raw state, and it does
\* answer "running" for a running container when the engine answers
C16_Reconciliation ==
    /\ [](\A r \in ReqIds :
            ( /\ requests[r].kind = "status"
              /\ requests[r].pc = "container_status"
              /\ docker_client
              /\ containers[requests[r].container_name] = "running" )
            => ENABLED ( /\ project_docker_status_container_status(r)
                         /\ requests'[r].response =
                                Response(200, "running") ))
    /\ [][\A r \in ReqIds :
            /\ ( /\ requests[r].kind = "status" /\ requests[r].pc = "get"
                 /\ DOCKER_STATUS[requests[r].pid] = None /\ Stepped(r) )
                  => requests'[r].pc = "container_exists"
            /\ ( /\ requests[r].kind = "status"
                 /\ requests[r].pc = "container_exists" /\ Stepped(r) )
                  => /\ requests'[r].pc \in {"container_status", "done"}
                     /\ requests'[r].pc = "done"
                           => requests'[r].response =
                                 Response(200, "stopped")
                     /\ containers[requests[r].container_name] = "absent"
                           => requests'[r].pc = "done"
            /\ ( /\ requests[r].kind = "status"
                 /\ requests[r].pc = "container_status" /\ Stepped(r) )
                  => /\ requests'[r].pc = "done"
                     /\ requests'[r].response.code = 200
                     /\ requests'[r].response.status
                           \in {"running", "stopped"}
                     /\ requests'[r].response.status = "running"
                           => containers[requests[r].container_name]
                                 = "running"
                     /\ containers' = containers
                     /\ DOCKER_STATUS' = DOCKER_STATUS]_vars

\* the query found no entry and answered "running" from the engine
C16_Witness ==
    \E r \in ReqIds :
        /\ requests[r].kind = "status" /\ requests[r].pc = "done"
        /\ requests[r].response = Response(200, "running")
        /\ requests[r].calls = <<"container_exists", "container_status">>
        /\ DOCKER_STATUS[requests[r].pid] = None

\* C17: every entry of the status map is absent or one of "stopped",
\* "starting", "running", and every answer of a status query carries one
\* of these three values
C17_StatusVocabulary ==
    /\ \A p \in Pids : DOCKER_STATUS[p] \in Statuses \cup {None}
    /\ \A r \in ReqIds :
          ( /\ requests[r].kind = "status" /\ requests[r].pc = "done"
            /\ requests[r].response.code = 200 )
          => requests[r].response.status \in Statuses

\* a query answered "stopped" from an entry that a failed thread wrote
C17_Witness ==
    \E r \in ReqIds, t \in TaskIds :
        /\ requests[r].kind = "status" /\ requests[r].pc = "done"
        /\ requests[r].response = Response(200, "stopped")
        /\ requests[r].calls = <<>>
        /\ tasks[t].pid = requests[r].pid /\ tasks[t].pc = "done"
        /\ DOCKER_STATUS[requests[r].pid] = "stopped"

\* C18: the answer of an accepted start request is 202 "starting"; it is
\* given when the thread is started, before the thread has made any build,
\* run or start call, and nothing the thread does later changes it
C18_FailuresStayInBackground ==
    /\ [](\A r \in ReqIds :
            ( /\ requests[r].kind = "start" /\ requests[r].pc = "done"
              /\ requests[r].thread # 0 )
            => requests[r].response = Response(202, "starting"))
    /\ [][\A r \in ReqIds :
            /\ ( /\ requests[r].kind = "start"
                 /\ requests[r].pc = "thread_start" /\ Stepped(r) )
                  => /\ requests'[r].pc = "done"
                     /\ requests'[r].response = Response(202, "starting")
                     /\ requests'[r].thread # 0
                     /\ tasks'[requests'[r].thread].pc = "set_starting"
                     /\ tasks'[requests'[r].thread].calls = <<>>
            /\ (requests[r].pc = "done" /\ requests'[r].pc = "done")
                  => requests'[r] = requests[r]]_vars

\* the thread of an accepted start faulted and ended with "stopped" in the
\* status map while the answer of the request is still 202 "starting"
C18_Witness ==
    \E r \in ReqIds :
        /\ requests[r].kind = "start" /\ requests[r].pc = "done"
        /\ requests[r].thread # 0
        /\ requests[r].response = Response(202, "starting")
        /\ tasks[requests[r].thread].pc = "done"
        /\ tasks[requests[r].thread].faulted
        /\ DOCKER_STATUS[requests[r].pid] = "stopped"

\* a thread that found neither image nor container and whose build
\* succeeded, before its run call
BuiltBeforeRun(task) ==
    /\ task.pc = "container_step"
    /\ ~task.image_exists /\ ~task.container_exists
    /\ task.calls = << <<"build", TRUE>> >>

\* C19: in the scenario of a project without image and container and an
\* engine that does not fail, a second start issued before the run of the
\* first has completed causes no second build: no two threads of the
\* project have each built the image
C19_EndToEnd ==
    \A t, u \in TaskIds :
        ( /\ t # u /\ tasks[t].pid = tasks[u].pid
          /\ BuiltBeforeRun(tasks[t])
          /\ containers[tasks[t].container_name] = "absent" )
        => ~BuiltBeforeRun(tasks[u])

\* C20: an entry that is "running" changes only by a step of a stop or
\* remove request for that project
C20_RunningUntilStopRemove ==
    [][\A p \in Pids :
          (DOCKER_STATUS[p] = "running" /\ DOCKER_STATUS'[p] # "running")
          => \E r \in ReqIds :
                /\ requests[r].pid = p
                /\ requests[r].kind \in {"stop", "remove"}
                /\ Stepped(r)]_vars

\* C21: a start request received while the entry of its project is
\* "starting" is not rejected for a missing port: it does not answer 400
C21_DedupBeforeValidation ==
    [][\A r \in ReqIds :
          ( /\ requests[r].pc = "idle" /\ requests'[r].kind = "start"
            /\ projects[requests'[r].pid] # NoProject
            /\ DOCKER_STATUS[requests'[r].pid] = "starting" )
          => requests'[r].response.code # 400]_vars

\* C22: the thread chooses between run and start-existing on the state of
\* the container at its container step: for a container that is absent at
\* that step (removed after the start request looked) it calls run
C22_ExistenceRechecked ==
    [][\A t \in TaskIds :
          ( /\ tasks[t].pc = "container_step"
            /\ tasks'[t].pc = "write_result"
            /\ containers[tasks[t].container_name] = "absent" )
          => LastCall(tasks'[t])[1] = "run"]_vars

\* C23: a stop or remove request whose container exists does not answer
\* not-found, also when the engine is unreachable or the existence query
\* fails
C23_NotFoundOnlyWhenAbsent ==
    [][\A r \in ReqIds :
          ( /\ requests[r].kind \in {"stop", "remove"}
            /\ requests[r].pc = "container_exists"
            /\ containers[requests[r].container_name] # "absent"
            /\ Stepped(r) )
          => requests'[r].response.code # 404]_vars

\* C24: a stop or remove request is accepted whatever the entry of its
\* project holds, "starting" included: it goes on to its existence query,
\* no step of it stops or changes a thread, and its write replaces a
\* "starting" entry while the thread of the project stays active
C24_StopRemoveNotSingleFlighted ==
    [][\A r \in ReqIds :
          /\ ( /\ requests[r].pc = "idle"
               /\ requests'[r].kind \in {"stop", "remove"}
               /\ projects[requests'[r].pid] # NoProject )
                => requests'[r].pc = "container_exists"
          /\ (requests[r].kind \in {"stop", "remove"} /\ Stepped(r))
                => tasks' = tasks
          /\ ( /\ requests[r].kind \in {"stop", "remove"}
               /\ requests[r].pc = "container_exists" /\ Stepped(r) )
                => /\ requests'[r].calls = <<"container_exists">>
                   /\ requests'[r].pc \in {"stop_container",
                                            "remove_container", "done"}
                   /\ requests'[r].pc = "done"
                         => requests'[r].response.code = 404
          /\ ( /\ requests[r].kind \in {"stop", "remove"}
               /\ requests[r].pc \in {"set_stopped", "pop"}
               /\ DOCKER_STATUS[requests[r].pid] = "starting"
               /\ Stepped(r) )
                => DOCKER_STATUS'[requests[r].pid] =
                      (IF requests[r].kind = "stop" THEN "stopped"
                       ELSE None)]_vars

\* a stop found and stopped the container that the thread had just run,
\* wrote "stopped", and the thread wrote "running" after it
C24_Witness ==
    \E r \in ReqIds, t \in TaskIds :
        /\ requests[r].kind = "stop" /\ requests[r].pc = "done"
        /\ requests[r].response = Response(200, "stopped")
        /\ tasks[t].pid = requests[r].pid /\ tasks[t].pc = "finally_get"
        /\ tasks[t].calls # <<>> /\ LastCall(tasks[t]) = <<"run", TRUE>>
        /\ containers[tasks[t].container_name] = "exited"
        /\ DOCKER_STATUS[requests[r].pid] = "running"

\* C25: a step changes the entry of at most one project, and only a stop
\* or remove request or a thread of that project changes it; the dedup
\* check and the status query of a project look at its own entry only
C25_PerProjectIsolation ==
    [][\A p \in Pids :
          /\ DOCKER_STATUS'[p] # DOCKER_STATUS[p]
                => /\ \A q \in Pids \ {p} :
                         DOCKER_STATUS'[q] = DOCKER_STATUS[q]
                   /\ \/ \E r \in ReqIds :
                            /\ requests[r].pid = p
                            /\ requests[r].kind \in {"stop", "remove"}
                            /\ Stepped(r)
                      \/ \E t \in TaskIds :
                            /\ tasks[t].pid = p /\ TaskActive(t)
                            /\ tasks'[t] # tasks[t]
          /\ \A r \in ReqIds :
                ( /\ requests[r].kind = "start" /\ requests[r].pc = "dedup"
                  /\ requests[r].pid = p /\ Stepped(r) )
                => (requests'[r].pc = "done"
                      <=> DOCKER_STATUS[p] = "starting")
          /\ \A r \in ReqIds :
                ( /\ requests[r].kind = "status" /\ requests[r].pc = "get"
                  /\ requests[r].pid = p /\ Stepped(r) )
                => (requests'[r].pc = "done"
                      <=> DOCKER_STATUS[p] # None)]_vars

\* threads of two projects are active at the same time and the entries of
\* the two projects differ
C25_Witness ==
    \E t, u \in TaskIds :
        /\ TaskActive(t) /\ TaskActive(u)
        /\ tasks[t].pid # tasks[u].pid
        /\ DOCKER_STATUS[tasks[t].pid] = "running"
        /\ DOCKER_STATUS[tasks[u].pid] = "starting"

\* C26: a status query makes at most one call to the engine
C26_StatusQueryCost ==
    \A r \in ReqIds :
        requests[r].kind = "status" => Len(requests[r].calls) <= 1

\* C27: no step changes the container name of a project, and every request
\* and thread in progress addresses the container name of its project's
\* record
C27_ContainerNameStable ==
    /\ [](\A r \in ReqIds :
            InFlight(r)
            => requests[r].container_name
                  = projects[requests[r].pid].docker_name)
    /\ [](\A t \in TaskIds :
            TaskActive(t)
            => tasks[t].container_name = projects[tasks[t].pid].docker_name)
    /\ [][\A p \in Pids :
            projects[p] # NoProject
            => /\ projects'[p] # NoProject
               /\ projects'[p].docker_name = projects[p].docker_name]_vars

\* the project was edited to another image; a thread started after the
\* edit runs that image under the container name of the record, and a stop
\* request addresses the same name
C27_Witness ==
    \E r \in ReqIds, t \in TaskIds :
        /\ projects[tasks[t].pid] # NoProject
        /\ projects[tasks[t].pid].docker_image = "i_R"
        /\ TaskActive(t) /\ tasks[t].image_name = "i_R"
        /\ tasks[t].container_name = projects[tasks[t].pid].docker_name
        /\ requests[r].kind = "stop" /\ requests[r].pid = tasks[t].pid
        /\ requests[r].pc = "stop_container"
        /\ requests[r].container_name = tasks[t].container_name

\* C28: while no worker is killed, an entry is "starting" only while a
\* thread of that project has been started and has not ended
C28_StartingImpliesLiveTask ==
    \A p \in Pids :
        DOCKER_STATUS[p] = "starting" => ActiveTasks(p) # {}

\* the entry is "starting" and the only thread of the project has faulted
\* and is about to make its cleanup write
C28_Witness ==
    \E t \in TaskIds :
        /\ tasks[t].pc = "finally_set" /\ tasks[t].faulted
        /\ ActiveTasks(tasks[t].pid) = {t}
        /\ DOCKER_STATUS[tasks[t].pid] = "starting"

\* no request and no thread of the project is in progress
Quiescent(p) ==
    /\ ActiveTasks(p) = {}
    /\ \A r \in ReqIds : InFlight(r) => requests[r].pid # p

\* C29: when nothing is in progress for a project, an entry "running"
\* means that the container of the project is running
C29_QuiescentConsistency ==
    \A p \in Pids :
        ( /\ projects[p] # NoProject /\ Quiescent(p)
          /\ DOCKER_STATUS[p] = "running" )
        => containers[projects[p].docker_name] = "running"

\* C30: no step of a status query changes the status map, the engine's
\* images and containers, or a thread; the only wrapper calls it makes are
\* the two queries
C30_StatusReadOnly ==
    [][\A r \in ReqIds :
          (Stepped(r) /\ requests'[r].kind = "status")
          => /\ DOCKER_STATUS' = DOCKER_STATUS
             /\ images' = images /\ containers' = containers
             /\ tasks' = tasks /\ projects' = projects
             /\ requests'[r].writes = 0
             /\ \A i \in 1..Len(requests'[r].calls) :
                   requests'[r].calls[i]
                      \in {"container_exists", "container_status"}]_vars

\* a query reconciled a paused container to "stopped" and the project
\* still has no entry
C30_Witness ==
    \E r \in ReqIds :
        /\ requests[r].kind = "status" /\ requests[r].pc = "done"
        /\ requests[r].response = Response(200, "stopped")
        /\ requests[r].calls = <<"container_exists", "container_status">>
        /\ containers[projects[requests[r].pid].docker_name] = "paused"
        /\ DOCKER_STATUS[requests[r].pid] = None

\* the wrapper calls a thread may have made, in order
BoundedCalls ==
    {<<>>}
    \cup { << <<"build", ok>> >> : ok \in BOOLEAN }
    \cup { << <<op, ok>> >> : op \in {"run", "start"}, ok \in BOOLEAN }
    \cup { << <<"build", TRUE>>, <<op, ok>> >> :
              op \in {"run", "start"}, ok \in BOOLEAN }

\* C31: a thread calls build at most once and then at most one of run and
\* start-existing, once; it never stops or removes a container; after its
\* write of "starting" it writes one outcome at most ("running" or
\* "stopped") and then only the cleanup follows
C31_BoundedTaskWork ==
    /\ [](\A t \in TaskIds : tasks[t].calls \in BoundedCalls)
    /\ [][\A t \in TaskIds :
            (TaskActive(t) /\ tasks'[t] # tasks[t])
            => /\ \A c \in ContainerNames :
                     containers'[c] # containers[c]
                     => /\ c = tasks[t].container_name
                        /\ containers'[c] = "running"
               /\ tasks[t].pc \in {"build_failed", "write_result"}
                     => /\ tasks'[t].pc = "finally_get"
                        /\ tasks'[t].faulted
                              \/ DOCKER_STATUS'[tasks[t].pid]
                                     \in {"running", "stopped"}
               /\ tasks[t].pc \in {"build", "container_step", "finally_get"}
                     => DOCKER_STATUS' = DOCKER_STATUS
               /\ tasks[t].pc = "finally_get"
                     => tasks'[t].pc \in {"finally_set", "done"}
               /\ tasks[t].pc = "finally_set"
                     => tasks'[t].pc = "done"]_vars

\* a thread has built the image, run the container and written "running"
C31_Witness ==
    \E t \in TaskIds :
        /\ tasks[t].pc = "finally_get"
        /\ tasks[t].calls = << <<"build", TRUE>>, <<"run", TRUE>> >>
        /\ containers[tasks[t].container_name] = "running"
        /\ DOCKER_STATUS[tasks[t].pid] = "running"

\* the threads that the step starts for project pid
Launched(pid) ==
    { t \in TaskIds : /\ tasks[t].pc = "idle"
                      /\ tasks'[t].pc = "set_starting"
                      /\ tasks'[t].pid = pid }

\* C32: a start request with valid ports that reads no entry, "stopped"
\* or "running" goes on past the dedup check; from there its only answer
\* is 202 "starting", given in the step that starts one thread for it
C32_StartAcceptedUnlessStarting ==
    [][\A r \in ReqIds :
          requests[r].kind = "start"
          => /\ ( /\ requests[r].pc = "dedup" /\ Stepped(r)
                  /\ DOCKER_STATUS[requests[r].pid] # "starting" )
                   => /\ requests'[r].pc = "image_exists"
                      /\ tasks' = tasks
             /\ ( /\ requests[r].pc \in {"image_exists", "container_exists"}
                  /\ Stepped(r) )
                   => /\ requests'[r].pc \in {"container_exists",
                                               "thread_start"}
                      /\ tasks' = tasks
             /\ (requests[r].pc = "thread_start" /\ Stepped(r))
                   => /\ requests'[r].pc = "done"
                      /\ requests'[r].response = Response(202, "starting")
                      /\ Cardinality(Launched(requests[r].pid)) = 1
                      /\ requests'[r].thread \in Launched(requests[r].pid)
                      /\ \A t \in TaskIds :
                            tasks'[t] # tasks[t]
                            => t \in Launched(requests[r].pid)]_vars

\* a start was accepted after an earlier thread of the project had ended
\* with "running": the entry it read was not "starting", and its own
\* thread is started
C32_Witness ==
    \E r \in ReqIds, t \in TaskIds :
        /\ requests[r].kind = "start" /\ requests[r].pc = "done"
        /\ requests[r].response = Response(202, "starting")
        /\ requests[r].thread # 0 /\ requests[r].thread # t
        /\ tasks[requests[r].thread].pc = "set_starting"
        /\ tasks[t].pc = "done" /\ tasks[t].pid = requests[r].pid
        /\ DOCKER_STATUS[requests[r].pid] = "running"

\* the values a thread passes to build and run
Parameters(frame) ==
    <<frame.image_name, frame.container_name, frame.host_port,
      frame.container_port>>

\* C33: a thread gets the image name, container name and ports that its
\* start request read from the record, keeps them until it ends, and
\* builds and runs with them, whatever edits the record receives meanwhile
C33_TaskParametersSnapshot ==
    [][/\ \A r \in ReqIds :
            /\ ( /\ requests[r].kind = "start" /\ InFlight(r)
                 /\ requests'[r].pc \notin {"idle", "done"} )
                  => Parameters(requests'[r]) = Parameters(requests[r])
            /\ ( /\ requests[r].kind = "start"
                 /\ requests[r].pc = "thread_start" /\ Stepped(r) )
                  => Parameters(tasks'[requests'[r].thread])
                        = Parameters(requests[r])
       /\ \A t \in TaskIds :
            /\ (TaskActive(t) /\ tasks'[t].pc \notin {"done", "killed"})
                  => Parameters(tasks'[t]) = Parameters(tasks[t])
            /\ ( /\ tasks[t].pc = "build"
                 /\ tasks'[t].pc = "container_step" )
                  => images' = images \cup {tasks[t].image_name}
            /\ ( /\ tasks[t].pc = "container_step"
                 /\ tasks'[t].pc = "write_result"
                 /\ LastCall(tasks'[t]) = <<"run", TRUE>> )
                  => /\ tasks[t].image_name \in images
                     /\ containers'[tasks[t].container_name] = "running"
                     /\ \A c \in ContainerNames \ {tasks[t].container_name} :
                           containers'[c] = containers[c]]_vars

\* the record names another image, which the engine does not hold; the
\* thread has built the image its request had read
C33_Witness ==
    \E t \in TaskIds :
        /\ tasks[t].pc = "container_step"
        /\ tasks[t].calls = << <<"build", TRUE>> >>
        /\ tasks[t].image_name = "i_P"
        /\ projects[tasks[t].pid].docker_image = "i_R"
        /\ images = {"i_P"}

\* C34: the write of the cleanup changes the entry only when the entry is
\* "starting" at that write
C34_CleanupOnlyOverwritesStarting ==
    [][\A t \in TaskIds :
          (tasks[t].pc = "finally_set" /\ tasks'[t].pc = "done")
          => \/ DOCKER_STATUS[tasks[t].pid] = "starting"
             \/ DOCKER_STATUS' = DOCKER_STATUS]_vars

====
